---------------------------- MODULE Spec2Model ----------------------------
(***************************************************************************)
(* Model of the opening-move evaluation harness:                           *)
(*   evaluate_moves.py    (variant A: move index written to a side file)   *)
(*   evaluate_moves_2.py  (variant B: move overlaid on each board file)    *)
(*                                                                         *)
(* Text is a sequence of whitespace-separated tokens.  A token renders as  *)
(*   tag(n)  "Player n"          wp   "win percentage"                     *)
(*   wpc     "win percentage:"   sep  ":" or "="                           *)
(*   nl      a line break        word any other word                       *)
(*   num     digits, optionally one decimal digit after '.' or ','         *)
(*   tmo     "SIMULATOR_TIMEOUT" err  "SIMULATOR_ERROR:"                   *)
(* Numbers are held in thousandths (Milli): 0.455 is 455, 73 is 73000.     *)
(***************************************************************************)
EXTENDS Integers, Sequences, FiniteSets, TLC

VARIABLES
  text, player, result, pstate,     \* parse_winrate: its arguments and return value
  catalog,                          \* possible_moves
  inputDir,                         \* variant B: the board files of --input-dir
  artifacts,                        \* variant B: the modified boards in --output-dir
  results_exists, results,          \* the results CSV: present, and its rows
  move_txt,                         \* variant A: agents/move.txt
  pc, runs, edits,                  \* position in main, runs started, edits made
  bi, mi,                           \* loop indices: board (1-based), move (0-based)
  simKind, elapsed, sim_out,        \* the simulator process and what it returned
  win_rates, outs,                  \* variant A: win_rates, and the outputs parsed
  handed, produced                  \* variant B: board given to the simulator; boards saved

parseVars == <<text, player, result, pstate>>
harnessVars == <<catalog, inputDir, artifacts, results_exists, results, move_txt,
                 pc, runs, edits, bi, mi, simKind, elapsed, sim_out, win_rates,
                 outs, handed, produced>>
vars == <<parseVars, harnessVars>>

\* ------------------------------------------------------------------ bounds
MaxLen == 5
MaxCat == 2
MaxRuns == 2
MaxEdits == 1
TimeoutTicks == 2
MaxWait == TimeoutTicks + 2

\* ------------------------------------------------------------------ tokens
Tok(kind, int, frac, comma) == [k |-> kind, i |-> int, f |-> frac, c |-> comma]
Tag(n) == Tok("tag", n, -1, FALSE)
Wp == Tok("wp", 0, -1, FALSE)
Wpc == Tok("wpc", 0, -1, FALSE)
SepTok == Tok("sep", 0, -1, FALSE)
Nl == Tok("nl", 0, -1, FALSE)
Word == Tok("word", 0, -1, FALSE)
TmoTok == Tok("tmo", 0, -1, FALSE)
ErrTok == Tok("err", 0, -1, FALSE)
\* digits "i", "i.f" or "i,f" (frac = -1: no decimal part)
Num(int, frac, comma) == Tok("num", int, frac, comma)

Players == {1, 2}
Numbers == {Num(73, -1, FALSE), Num(45, 5, TRUE), Num(0, 8, FALSE), Num(250, -1, FALSE)}
Alphabet == {Tag(p) : p \in Players} \cup {Wp, Wpc, SepTok, Nl, Word} \cup Numbers

\* parse_winrate's "not found"
None == [isNone |-> TRUE, v |-> 0]
Some(x) == [isNone |-> FALSE, v |-> x]

\* ------------------------------------------------------- parse_winrate
\* text.replace(',', '.')
Normalize(txt) == [j \in 1..Len(txt) |-> [txt[j] EXCEPT !.c = FALSE]]

\* str.splitlines(): the lines of the text, line breaks removed
RECURSIVE SplitFrom(_, _, _)
SplitFrom(txt, j, cur) ==
  IF j > Len(txt) THEN (IF cur = <<>> THEN <<>> ELSE <<cur>>)
  ELSE IF txt[j].k = "nl" THEN <<cur>> \o SplitFrom(txt, j + 1, <<>>)
  ELSE SplitFrom(txt, j + 1, Append(cur, txt[j]))
SplitLines(txt) == SplitFrom(txt, 1, <<>>)

\* \s* : the first position at or after j that is not white space
RECURSIVE SkipWs(_, _)
SkipWs(s, j) == IF j <= Len(s) /\ s[j].k = "nl" THEN SkipWs(s, j + 1) ELSE j

IsNum(s, j) == j <= Len(s) /\ s[j].k = "num"
IsSep(s, j) == j <= Len(s) /\ s[j].k = "sep"

\* ws [:=]? ws digits from position j: the position of the digits, or 0
SepThenNum(s, j) ==
  LET j1 == SkipWs(s, j) IN
  IF IsNum(s, j1) THEN j1
  ELSE IF IsSep(s, j1)
       THEN LET j2 == SkipWs(s, j1 + 1) IN IF IsNum(s, j2) THEN j2 ELSE 0
       ELSE 0

\* win_re  win percentage\s*[:=]?\s*(\d+(?:\.\d+)?)  matched at position j:
\* the position of the captured number, or 0
WinReAt(s, j) ==
  IF j > Len(s) THEN 0
  ELSE IF s[j].k = "wp" THEN SepThenNum(s, j + 1)
  ELSE IF s[j].k = "wpc"
       THEN LET j1 == SkipWs(s, j + 1) IN IF IsNum(s, j1) THEN j1 ELSE 0
  ELSE 0

\* WINRATE_PATTERNS[0]  win percentage:?\s*[:=]?\s*(\d+(?:\.\d+)?)  at j
WinratePatternAt(s, j) ==
  IF j > Len(s) THEN 0
  ELSE IF s[j].k \in {"wp", "wpc"} THEN SepThenNum(s, j + 1)
  ELSE 0

\* (mutant) the last match is taken, not the first
RECURSIVE WinReSearchLast(_, _)
WinReSearchLast(s, j) ==
  IF j > Len(s) THEN 0
  ELSE IF WinReSearchLast(s, j + 1) # 0 THEN WinReSearchLast(s, j + 1)
  ELSE WinReAt(s, j)

\* re.search: the leftmost position from j on where the pattern matches
RECURSIVE WinReSearch(_, _)
WinReSearch(s, j) ==
  IF j > Len(s) THEN 0
  ELSE IF WinReAt(s, j) # 0 THEN WinReAt(s, j)
  ELSE WinReSearch(s, j + 1)

RECURSIVE WinratePatternSearch(_, _)
WinratePatternSearch(s, j) ==
  IF j > Len(s) THEN 0
  ELSE IF WinratePatternAt(s, j) # 0 THEN WinratePatternAt(s, j)
  ELSE WinratePatternSearch(s, j + 1)

\* line_player_re  Player\s*{player}\b  searched from j: its position, or 0
RECURSIVE LinePlayerSearch(_, _, _)
LinePlayerSearch(s, who, j) ==
  IF j > Len(s) THEN 0
  ELSE IF s[j].k = "tag" /\ s[j].i = who THEN j
  ELSE LinePlayerSearch(s, who, j + 1)

\* float(m.group(1)) of the number token, in thousandths: digits up to the
\* first character that is neither a digit nor ".digits"
FloatOf(tok) ==
  IF tok.f >= 0 /\ ~tok.c THEN tok.i * 1000 + tok.f * 100 ELSE tok.i * 1000

\* val / 100.0 if val > 1.0 else val
Scale(val) == IF val > 1000 THEN val \div 100 ELSE val

\* the for loop over text_norm.splitlines(): the first line that has the
\* player tag and a win_re match decides
RECURSIVE LineLoop(_, _, _)
LineLoop(lines, who, n) ==
  IF n > Len(lines) THEN None
  ELSE IF LinePlayerSearch(lines[n], who, 1) # 0 /\ WinReSearch(lines[n], 1) # 0
       THEN Some(Scale(FloatOf(lines[n][WinReSearch(lines[n], 1)])))
  ELSE LineLoop(lines, who, n + 1)

\* re.search(Player\s*{player}\b.*?win percentage..., re.S): leftmost tag
\* from which a win_re match follows, lazily the nearest one
RECURSIVE CombinedSearch(_, _, _)
CombinedSearch(s, who, j) ==
  LET t == LinePlayerSearch(s, who, j) IN
  IF t = 0 THEN 0
  ELSE IF WinReSearch(s, t + 1) # 0 THEN WinReSearch(s, t + 1)
  ELSE CombinedSearch(s, who, t + 1)

parse_winrate(txt, who) ==
  IF txt = <<>> THEN None
  ELSE LET text_norm == Normalize(txt)
           byLine == LineLoop(SplitLines(text_norm), who, 1)
           combined == CombinedSearch(text_norm, who, 1)
           m == WinratePatternSearch(text_norm, 1)
       IN IF ~byLine.isNone THEN byLine
          ELSE IF combined # 0 THEN Some(Scale(FloatOf(text_norm[combined])))
          ELSE IF m # 0 THEN Some(Scale(FloatOf(text_norm[m])))
          ELSE None

\* ------------------------------------------------------ files and boards
\* a path at which no file exists
NoFile == <<>>

\* the *.csv files an input directory can hold, in sorted(...) order
SortedNames == <<"a", "b">>
BoardNames == {SortedNames[j] : j \in 1..Len(SortedNames)}

\* board files: rows of cells, 0 empty, 1 and 2 the players, 3 an obstacle
BoardZero == << <<0, 0>>, <<0, 0>> >>
BoardMixed == << <<0, 0>>, <<2, 3>> >>
BoardOneRow == << <<0, 0>> >>
BoardFiles == {BoardZero, BoardMixed, BoardOneRow}

\* opening_moves.possible_moves: overlay grids, 0 meaning "no change"
MoveSource ==
  << << <<0, 0>>, <<1, 0>> >>,
     << <<0, 1>>, <<0, 1>> >>,
     << <<0, 1>>, <<0, 0>> >>,
     << <<0, 0>>, <<0, 1>> >> >>
Catalogs == {SubSeq(MoveSource, 1, n) : n \in 1..(IF MaxCat < Len(MoveSource) THEN MaxCat ELSE Len(MoveSource))}

\* the destinations named in variant A's header row
moves == << <<1, 0>>, <<0, 1>>, <<1, 1>>, <<2, 0>>, <<0, 2>>, <<2, 1>>, <<1, 2>>, <<2, 2>> >>

\* the header row of variant B's results table
HeaderB == <<"source_csv", "move_idx", "dest_row", "dest_col", "winrate",
             "sim_stdout_snippet", "modified_csv_path">>

\* sorted(input_folder.glob("*.csv"))
csv_files(dir) == SelectSeq(SortedNames, LAMBDA n : dir[n] # NoFile)

\* f"{src_csv.stem}_move{mi}.csv" in the output folder
out_name(stem, idx) == <<stem, idx>>
ArtifactNames == {out_name(n, j) : n \in BoardNames, j \in 0..(Len(MoveSource) - 1)}

\* the shape of np.loadtxt(file, delimiter=","): a file of one row or of
\* one column loads as a 1-dimensional array, a single cell as a scalar
LoadShape(file) ==
  LET r == Len(file)
      c == Len(file[1])
  IN IF r = 1 /\ c = 1 THEN <<>>
     ELSE IF r = 1 THEN <<c>>
     ELSE IF c = 1 THEN <<r>>
     ELSE <<r, c>>

\* np.array(pm).shape of a catalog move (a list of rows)
MoveShape(pm) == <<Len(pm), Len(pm[1])>>

\* np.argwhere(pm_arr != 0), as (row, column) pairs counted from 1
NonZero(pm) == {rc \in (1..Len(pm)) \X (1..Len(pm[1])) : pm[rc[1]][rc[2]] # 0}

ShapeMismatch(board, pm) == MoveShape(pm) # LoadShape(board)

\* (mutant) only the first non-zero cell is looked at
TouchesObstacleFirstOnly(board, pm) ==
  \E rc \in NonZero(pm) :
     /\ \A y \in NonZero(pm) : rc[1] < y[1] \/ (rc[1] = y[1] /\ rc[2] <= y[2])
     /\ board[rc[1]][rc[2]] = 3

\* np.any(board[rows, cols] == 3)
TouchesObstacle(board, pm) == \E rc \in NonZero(pm) : board[rc[1]][rc[2]] = 3

\* the two "continue" branches of the move loop
Skipped(board, pm) ==
  \/ ShapeMismatch(board, pm)
  \/ TouchesObstacle(board, pm)

\* (mutant) the board's own pieces win over the move
OverlayBoardFirst(board, pm) ==
  [r \in 1..Len(board) |->
     [c \in 1..Len(board[r]) |-> IF board[r][c] # 0 THEN board[r][c] ELSE pm[r][c]]]

\* np.where(pm_arr != 0, pm_arr, board)
Overlay(board, pm) ==
  [r \in 1..Len(board) |->
     [c \in 1..Len(board[r]) |-> IF pm[r][c] # 0 THEN pm[r][c] ELSE board[r][c]]]

\* (mutant) the artifact is saved whether or not the file exists
MaterializeAlways(arts, key, modified) == [arts EXCEPT ![key] = modified]

\* np.savetxt(out_path, modified, delimiter=",", fmt="%d") unless the
\* file exists already: the output folder afterwards
Materialize(arts, key, modified) ==
  IF arts[key] # NoFile THEN arts ELSE [arts EXCEPT ![key] = modified]

\* the first non-zero cell of the move in row-major order, counted from
\* 0, or (-1, -1)
Dest(pm) ==
  IF NonZero(pm) = {} THEN <<-1, -1>>
  ELSE LET rc == CHOOSE x \in NonZero(pm) :
                   \A y \in NonZero(pm) :
                      x[1] < y[1] \/ (x[1] = y[1] /\ x[2] <= y[2])
       IN <<rc[1] - 1, rc[2] - 1>>

\* a win rate as csv.writer writes it: None (or "") is the empty field,
\* a number is its digits
EmptyField == <<>>
CsvField(win) == IF win.isNone THEN EmptyField ELSE <<win.v>>

\* --------------------------------------------------------- the simulator
\* what a simulator that exits may have printed
SimOutputs == { <<Tag(1), Wpc, Num(60, -1, FALSE)>>, <<Word>> }
\* str(e) of a failed subprocess.run, which names the program
Descriptions == { <<Word>>, <<Word, Wp, Num(50, -1, FALSE)>> }
SIMULATOR_TIMEOUT == <<TmoTok>>
SIMULATOR_ERROR(e) == <<ErrTok>> \o e
SimKinds == {"fails", "exits", "hangs"}

\* ------------------------------------------------ parse_winrate applied
ParseIdle == text = <<>> /\ player = 1 /\ result = None /\ pstate = "idle"

HarnessIdle ==
  /\ catalog = <<>> /\ inputDir = <<>> /\ artifacts = <<>>
  /\ results_exists = FALSE /\ results = <<>> /\ move_txt = -1
  /\ pc = "idle" /\ runs = 0 /\ edits = 0 /\ bi = 0 /\ mi = 0
  /\ simKind = "none" /\ elapsed = 0 /\ sim_out = <<>>
  /\ win_rates = <<>> /\ outs = <<>> /\ handed = <<>> /\ produced = {}

InitParse ==
  /\ \E n \in 0..MaxLen : text \in [1..n -> Alphabet]
  /\ player \in Players
  /\ result = None /\ pstate = "input"
  /\ HarnessIdle

CallParse ==
  /\ pstate = "input"
  /\ result' = parse_winrate(text, player)
  /\ pstate' = "parsed"
  /\ UNCHANGED <<text, player, harnessVars>>

NextParse == CallParse

SpecParse == InitParse /\ [][NextParse]_vars

\* ------------------------------------------------------- run_simulator
\* subprocess.run is entered: a program that cannot be started raises at
\* once and run_simulator returns "SIMULATOR_ERROR: {e}"; otherwise the
\* harness blocks on the child process
Spawn(kind) ==
  /\ simKind' = kind
  /\ elapsed' = 0
  /\ IF kind = "fails"
     THEN /\ \E e \in Descriptions : sim_out' = SIMULATOR_ERROR(e)
          /\ pc' = "got"
     ELSE /\ sim_out' = <<>>
          /\ pc' = "wait"

\* ------------------------------------------- variant B: evaluate_moves_2
\* (mutant) the table is opened for appending
OpenResultsAppend(old) == old \o <<HeaderB>>

\* results_path.open("w") and the header row: the table afterwards
OpenResultsW(old) == <<HeaderB>>

\* the row written for a pair whose simulator run returned
RowB(name, idx, pm, win) ==
  [src |-> name, mi |-> idx, dest |-> Dest(pm),
   win |-> CsvField(win), snippet |-> "", path |-> out_name(name, idx)]

\* the loops move on: the next move, else the next board, else the end
AdvanceB ==
  IF mi + 1 < Len(catalog) THEN /\ mi' = mi + 1 /\ bi' = bi /\ pc' = "loop"
  ELSE IF bi < Len(csv_files(inputDir)) THEN /\ mi' = 0 /\ bi' = bi + 1 /\ pc' = "loop"
  ELSE /\ mi' = mi /\ bi' = bi /\ pc' = "done"

InitB ==
  /\ ParseIdle
  /\ catalog \in Catalogs
  /\ inputDir \in [BoardNames -> BoardFiles \cup {NoFile}]
  /\ artifacts = [k \in ArtifactNames |-> NoFile]
  /\ results_exists = FALSE /\ results = <<>> /\ move_txt = -1
  /\ pc = "idle" /\ runs = 0 /\ edits = 0 /\ bi = 0 /\ mi = 0
  /\ simKind = "none" /\ elapsed = 0 /\ sim_out = <<>>
  /\ win_rates = <<>> /\ outs = <<>> /\ handed = <<>> /\ produced = {}

\* main up to the board loop
BMain ==
  /\ pc \in {"idle", "done"}
  /\ runs < MaxRuns
  /\ runs' = runs + 1
  /\ handed' = <<>>
  /\ IF csv_files(inputDir) = <<>>
     THEN /\ pc' = "done"
          /\ UNCHANGED <<results_exists, results, bi, mi>>
     ELSE /\ results_exists' = TRUE
          /\ results' = OpenResultsW(results)
          /\ bi' = 1 /\ mi' = 0
          /\ pc' = "loop"
  /\ UNCHANGED <<parseVars, catalog, inputDir, artifacts, move_txt, edits,
                 simKind, elapsed, sim_out, win_rates, outs, produced>>

\* one pass of the move loop up to the blocking call: the two skips, the
\* overlay, the artifact (reused or saved) and the start of the simulator
BPrepare ==
  /\ pc = "loop"
  /\ LET name == csv_files(inputDir)[bi]
         board == inputDir[name]
         pm == catalog[mi + 1]
         key == out_name(name, mi)
     IN IF Skipped(board, pm)
        THEN /\ AdvanceB
             /\ UNCHANGED <<artifacts, produced, handed, simKind, elapsed, sim_out>>
        ELSE /\ artifacts' = Materialize(artifacts, key, Overlay(board, pm))
             /\ produced' = IF artifacts'[key] # artifacts[key]
                            THEN produced \cup {[base |-> board, art |-> artifacts'[key]]}
                            ELSE produced
             /\ handed' = [path |-> key, content |-> artifacts'[key]]
             /\ \E kind \in SimKinds : Spawn(kind)
             /\ UNCHANGED <<bi, mi>>
  /\ UNCHANGED <<parseVars, catalog, inputDir, results_exists, results, move_txt,
                 runs, edits, win_rates, outs>>

\* a second passes while subprocess.run(..., timeout=timeout) waits
BTick ==
  /\ pc = "wait"
  /\ elapsed < TimeoutTicks
  /\ elapsed' = elapsed + 1
  /\ UNCHANGED <<parseVars, catalog, inputDir, artifacts, results_exists, results,
                 move_txt, pc, runs, edits, bi, mi, simKind, sim_out, win_rates,
                 outs, handed, produced>>

\* the child exits and its output is decoded
BSimExit ==
  /\ pc = "wait"
  /\ simKind = "exits"
  /\ \E out \in SimOutputs : sim_out' = out
  /\ pc' = "got"
  /\ UNCHANGED <<parseVars, catalog, inputDir, artifacts, results_exists, results,
                 move_txt, runs, edits, bi, mi, simKind, elapsed, win_rates, outs,
                 handed, produced>>

\* subprocess.TimeoutExpired
BTimeout ==
  /\ pc = "wait"
  /\ elapsed = TimeoutTicks
  /\ sim_out' = SIMULATOR_TIMEOUT
  /\ pc' = "got"
  /\ UNCHANGED <<parseVars, catalog, inputDir, artifacts, results_exists, results,
                 move_txt, runs, edits, bi, mi, simKind, elapsed, win_rates, outs,
                 handed, produced>>

\* the rest of the pass: parse_winrate, the result row, the next pass
BRecord ==
  /\ pc = "got"
  /\ LET name == csv_files(inputDir)[bi]
         win == parse_winrate(sim_out, 1)
     IN results' = Append(results, RowB(name, mi, catalog[mi + 1], win))
  /\ AdvanceB
  /\ UNCHANGED <<parseVars, catalog, inputDir, artifacts, results_exists, move_txt,
                 runs, edits, simKind, elapsed, sim_out, win_rates, outs, handed,
                 produced>>

\* between two runs a board file of the input directory is added, removed
\* or rewritten
EditInput ==
  /\ pc \in {"idle", "done"}
  /\ edits < MaxEdits
  /\ edits' = edits + 1
  /\ \E n \in BoardNames : \E b \in BoardFiles \cup {NoFile} :
        /\ b # inputDir[n]
        /\ inputDir' = [inputDir EXCEPT ![n] = b]
  /\ UNCHANGED <<parseVars, catalog, artifacts, results_exists, results, move_txt,
                 pc, runs, bi, mi, simKind, elapsed, sim_out, win_rates, outs,
                 handed, produced>>

NextB == BMain \/ BPrepare \/ BTick \/ BSimExit \/ BTimeout \/ BRecord \/ EditInput

SpecB == InitB /\ [][NextB]_vars

\* --------------------------------------------- variant A: evaluate_moves
InitA ==
  /\ ParseIdle
  /\ catalog \in Catalogs
  /\ inputDir = [n \in BoardNames |-> NoFile]
  /\ artifacts = [k \in ArtifactNames |-> NoFile]
  /\ results_exists = FALSE /\ results = <<>> /\ move_txt = -1
  /\ pc = "idle" /\ runs = 0 /\ edits = 0 /\ bi = 0 /\ mi = 0
  /\ simKind = "none" /\ elapsed = 0 /\ sim_out = <<>>
  /\ win_rates = <<>> /\ outs = <<>> /\ handed = <<>> /\ produced = {}

\* main up to the move loop: the table is opened for appending and gets
\* the header row if the file was not there
AMain ==
  /\ pc \in {"idle", "done", "crashed"}
  /\ runs < MaxRuns
  /\ runs' = runs + 1
  /\ results_exists' = TRUE
  /\ results' = IF ~results_exists THEN <<moves>> ELSE results
  /\ win_rates' = <<>> /\ outs' = <<>>
  /\ mi' = 0
  /\ pc' = "loop"
  /\ UNCHANGED <<parseVars, catalog, inputDir, artifacts, move_txt, edits, bi,
                 simKind, elapsed, sim_out, handed, produced>>

\* run_simulator up to the blocking call: the index goes to
\* agents/move.txt and the simulator is started
ASpawn ==
  /\ pc = "loop"
  /\ mi < Len(catalog)
  /\ move_txt' = mi
  /\ \E kind \in SimKinds : Spawn(kind)
  /\ UNCHANGED <<parseVars, catalog, inputDir, artifacts, results_exists, results,
                 runs, edits, bi, mi, win_rates, outs, handed, produced>>

\* a second passes while subprocess.run(cmd, ...) waits; no timeout is
\* passed, so the wait has no end of its own (MaxWait only ends the count)
ATick ==
  /\ pc = "wait"
  /\ elapsed < MaxWait
  /\ elapsed' = elapsed + 1
  /\ UNCHANGED <<parseVars, catalog, inputDir, artifacts, results_exists, results,
                 move_txt, pc, runs, edits, bi, mi, simKind, sim_out, win_rates,
                 outs, handed, produced>>

\* the child exits and its output is decoded
ASimExit ==
  /\ pc = "wait"
  /\ simKind = "exits"
  /\ \E out \in SimOutputs : sim_out' = out
  /\ pc' = "got"
  /\ UNCHANGED <<parseVars, catalog, inputDir, artifacts, results_exists, results,
                 move_txt, runs, edits, bi, mi, simKind, elapsed, win_rates, outs,
                 handed, produced>>

\* the rest of the pass: parse_winrate, win_rates.append, moves[mi] (an
\* IndexError past the eighth move, which ends the run)
ARecord ==
  /\ pc = "got"
  /\ win_rates' = Append(win_rates, parse_winrate(sim_out, 1))
  /\ outs' = Append(outs, sim_out)
  /\ IF mi + 1 > Len(moves)
     THEN /\ pc' = "crashed" /\ mi' = mi
     ELSE /\ pc' = "loop" /\ mi' = mi + 1
  /\ UNCHANGED <<parseVars, catalog, inputDir, artifacts, results_exists, results,
                 move_txt, runs, edits, bi, simKind, elapsed, sim_out, handed,
                 produced>>

\* writer.writerow(win_rates) after the loop
AFinish ==
  /\ pc = "loop"
  /\ mi = Len(catalog)
  /\ results' = Append(results, [j \in 1..Len(win_rates) |-> CsvField(win_rates[j])])
  /\ pc' = "done"
  /\ UNCHANGED <<parseVars, catalog, inputDir, artifacts, results_exists, move_txt,
                 runs, edits, bi, mi, simKind, elapsed, sim_out, win_rates, outs,
                 handed, produced>>

NextA == AMain \/ ASpawn \/ ATick \/ ASimExit \/ ARecord \/ AFinish

SpecA == InitA /\ [][NextA]_vars

\* =================================================================== claims
\* ------------------------------------------------------------ variant A

\* C1: every run_simulator call is bounded by the per-run timeout: while
\* the harness waits on the simulator, the wait never outlasts the timeout
\* (at the timeout it is abandoned and SIMULATOR_TIMEOUT is returned).
C1_WaitBoundedByTimeout == pc = "wait" => elapsed <= TimeoutTicks

\* C2: no failure of one unit of work keeps the later units from being
\* processed or the results from being written: a run that has started and
\* not ended can always take its next step.
C2_RunNeverBlocked == pc \in {"loop", "wait", "got"} => ENABLED NextA

IsSentinel(out) == Len(out) > 0 /\ out[1].k \in {"tmo", "err"}

\* C3: a move whose simulator output is the timeout sentinel or the failure
\* sentinel (whatever its description) has win rate unknown, and its field
\* of the row written is empty, every other move keeping its own value in
\* its own position.
C3_SentinelsAreUnknown ==
  /\ \A j \in 1..Len(outs) : IsSentinel(outs[j]) => win_rates[j] = None
  /\ pc = "done" =>
       /\ Len(results[Len(results)]) = Len(outs)
       /\ \A j \in 1..Len(outs) :
            results[Len(results)][j] =
              IF IsSentinel(outs[j]) THEN EmptyField
              ELSE CsvField(parse_winrate(outs[j], 1))

\* C7: after n completed runs from a missing file the table is one header
\* row and n data rows, each data row holding one field per catalog move,
\* and the header has as many fields as the rows.
C7_HeaderAndRowsAligned ==
  (pc = "done") =>
     /\ Len(results) = runs + 1
     /\ \A r \in 2..Len(results) :
          /\ Len(results[r]) = Len(catalog)
          /\ Len(results[r]) = Len(results[1])

\* ------------------------------------------------------------ variant B
\* the pair (board, move) is one the claim says is rejected: the shapes
\* differ, or a non-zero cell of the move lies on an obstacle of the board
C4_Rejected(board, pm) ==
  \/ Len(board) # Len(pm)
  \/ Len(board[1]) # Len(pm[1])
  \/ \E r \in 1..Len(pm) : \E c \in 1..Len(pm[1]) : pm[r][c] # 0 /\ board[r][c] = 3

C4_RejectedStep ==
  (pc = "loop" /\ C4_Rejected(inputDir[csv_files(inputDir)[bi]], catalog[mi + 1])) =>
     /\ artifacts' = artifacts
     /\ results' = results
     /\ produced' = produced
     /\ pc' \in {"loop", "done"}
     /\ pc' = "loop" => <<bi', mi'>> # <<bi, mi>>

C4_ObstaclesKept ==
  \A p \in produced :
     \A r \in 1..Len(p.base) : \A c \in 1..Len(p.base[r]) :
        p.base[r][c] = 3 => p.art[r][c] = 3

\* C4: a pair whose shapes differ or whose move touches an obstacle is
\* rejected: no artifact is written, the simulator is not started, no row
\* is written and the run goes on with the next pair; hence no modified
\* board a run saves differs from its base board in an obstacle cell.
C4_RejectedPairsLeaveNoTrace == []C4_ObstaclesKept /\ [][C4_RejectedStep]_vars

\* a rejected pair of a finished run: no row, no artifact, other rows written
C4_Witness ==
  /\ pc = "done" /\ runs = 1 /\ edits = 0
  /\ Len(results) > 1
  /\ \E n \in BoardNames : \E j \in 0..(Len(catalog) - 1) :
        /\ inputDir[n] # NoFile
        /\ Len(inputDir[n]) = Len(catalog[j + 1])
        /\ C4_Rejected(inputDir[n], catalog[j + 1])
        /\ artifacts[out_name(n, j)] = NoFile
        /\ \A i \in 2..Len(results) : results[i].path # out_name(n, j)

\* the board file and the move of the pair whose artifact was handed over
HandedBoard == inputDir[handed.path[1]]
HandedMove == catalog[handed.path[2] + 1]
IsOverlayOf(content, board, pm) ==
  /\ Len(content) = Len(board)
  /\ \A r \in 1..Len(board) :
        /\ Len(content[r]) = Len(board[r])
        /\ \A c \in 1..Len(board[r]) :
              content[r][c] = IF pm[r][c] # 0 THEN pm[r][c] ELSE board[r][c]

\* C5 (as stated): for every pair that is not skipped the artifact handed
\* to the simulator is the overlay of the move on the base board's current
\* value, also when the artifact file existed before the run.
C5_HandedIsOverlay ==
  pc \in {"wait", "got"} => IsOverlayOf(handed.content, HandedBoard, HandedMove)

C5_HandOver ==
  (pc = "loop" /\ pc' \in {"wait", "got"}) =>
     LET name == csv_files(inputDir)[bi]
         key == out_name(name, mi)
     IN /\ handed'.path = key
        /\ handed'.content = artifacts'[key]
        /\ IF artifacts[key] = NoFile
           THEN IsOverlayOf(handed'.content, inputDir[name], catalog[mi + 1])
           ELSE handed'.content = artifacts[key]

\* C5 (amended): for every pair that is not skipped and whose artifact file
\* does not exist when the pair is processed, the artifact handed to the
\* simulator is the overlay of the move on the base board's current value;
\* an artifact file that exists already is handed over as it is.
C5_HandedIsOverlayWhenNew == [][C5_HandOver]_vars

\* a second run hands over an artifact that is not the current overlay
C5_Witness ==
  /\ pc = "wait" /\ runs = 2
  /\ handed.content = artifacts[handed.path]
  /\ ~IsOverlayOf(handed.content, HandedBoard, HandedMove)

C6_Step ==
  \A k \in ArtifactNames :
     /\ artifacts[k] # NoFile => artifacts'[k] = artifacts[k]
     /\ artifacts'[k] # artifacts[k] =>
          /\ pc = "loop"
          /\ k = out_name(csv_files(inputDir)[bi], mi)

\* C6: the artifact of a pair is named by the board's name and the move's
\* index, and a run never writes to an artifact file that exists: each
\* artifact stays what the run that created it wrote.
C6_ArtifactsNeverRewritten == [][C6_Step]_vars

\* after a second run over an edited board, the artifact of a pair that the
\* second run evaluated is still the first run's
C6_Witness ==
  /\ pc = "done" /\ runs = 2 /\ edits = 1
  /\ \E i \in 2..Len(results) :
        LET k == results[i].path
        IN /\ artifacts[k] # NoFile
           /\ inputDir[k[1]] # NoFile
           /\ artifacts[k] # Overlay(inputDir[k[1]], catalog[k[2] + 1])

\* the pairs a run over this input directory does not skip
KeptPairs(dir, cat) ==
  {q \in BoardNames \X (0..(Len(cat) - 1)) :
     dir[q[1]] # NoFile /\ ~Skipped(dir[q[1]], cat[q[2] + 1])}
NameRank(n) == CHOOSE j \in 1..Len(SortedNames) : SortedNames[j] = n

\* the table is the header and one row per kept pair, boards in sorted
\* order and moves in catalog order
FreshTable(tbl, dir, cat) ==
  /\ Len(tbl) - 1 = Cardinality(KeptPairs(dir, cat))
  /\ tbl[1] = HeaderB
  /\ \A i \in 2..Len(tbl) : <<tbl[i].src, tbl[i].mi>> \in KeptPairs(dir, cat)
  /\ \A i \in 2..Len(tbl) : \A j \in 2..Len(tbl) :
        i < j => \/ NameRank(tbl[i].src) < NameRank(tbl[j].src)
                 \/ tbl[i].src = tbl[j].src /\ tbl[i].mi < tbl[j].mi

RunEnds == pc' = "done" /\ (pc # "done" \/ runs' # runs)

\* C8 (as stated): when a run of variant B ends, whatever the table held
\* and whatever the input directory holds, no board file included, the
\* table is the header and one row per pair the run did not skip.
C8_TableRewrittenEveryRun ==
  [][RunEnds => results_exists' /\ FreshTable(results', inputDir', catalog')]_vars

\* C8 (amended): when a run that found at least one board file ends, the
\* table is the header and one row per pair the run did not skip, no row of
\* an earlier run surviving; a run that finds no board file leaves the
\* table as it was.
C8_TableRewrittenWhenBoards ==
  [][RunEnds =>
       IF csv_files(inputDir) # <<>>
       THEN results_exists' /\ FreshTable(results', inputDir', catalog')
       ELSE results' = results /\ results_exists' = results_exists]_vars

\* a second run has replaced the rows of the first, after an edit
C8_Witness ==
  /\ pc = "done" /\ runs = 2 /\ edits = 1
  /\ csv_files(inputDir) # <<>>
  /\ Len(results) > 2
  /\ FreshTable(results, inputDir, catalog)

\* -------------------------------------------------------- parse_winrate
\* C9: parse_winrate returns "unknown" or a value in [0, 1].
C9_ResultInUnitInterval ==
  pstate = "parsed" => result.isNone \/ (0 <= result.v /\ result.v <= 1000)

\* positions a < n of s hold "win percentage" and a number with only white
\* space and at most maxSep separators between them
PatternSpan(s, a, n, maxSep) ==
  /\ a < n /\ n <= Len(s)
  /\ s[a].k \in {"wp", "wpc"}
  /\ s[n].k = "num"
  /\ \A j \in (a + 1)..(n - 1) : s[j].k \in {"nl", "sep"}
  /\ Cardinality({j \in (a + 1)..(n - 1) : s[j].k = "sep"}) <= maxSep
\* "win percentage", an optional ':' or '=', a number
NarrowPattern(s, a, n) == PatternSpan(s, a, n, IF s[a].k = "wp" THEN 1 ELSE 0)
\* the bare pattern, which also takes a ':' right after "win percentage"
BarePattern(s, a, n) == PatternSpan(s, a, n, 1)
OneLine(s, a, b) == \A j \in a..b : s[j].k # "nl"
MinOf(S) == CHOOSE x \in S : \A y \in S : x <= y
MaxOf(S) == CHOOSE x \in S : \A y \in S : x >= y

\* where the patterns start that each stage may use
Stage1Starts(s, who) ==
  {a \in 1..Len(s) :
     \E n \in 1..Len(s) : \E t \in 1..Len(s) :
        /\ NarrowPattern(s, a, n)
        /\ s[t] = Tag(who)
        /\ OneLine(s, MinOf({a, t}), MaxOf({n, t}))}
Stage2Starts(s, who) ==
  {a \in 1..Len(s) :
     \E n \in 1..Len(s) : \E t \in 1..(a - 1) :
        NarrowPattern(s, a, n) /\ s[t] = Tag(who)}
Stage3Starts(s) == {a \in 1..Len(s) : \E n \in 1..Len(s) : BarePattern(s, a, n)}
NumberOf(s, a) == s[CHOOSE n \in 1..Len(s) : BarePattern(s, a, n)]

\* the result the ordered fallback is said to give
FallbackResult(txt, who) ==
  LET s == Normalize(txt)
      first == IF Stage1Starts(s, who) # {} THEN MinOf(Stage1Starts(s, who))
               ELSE IF Stage2Starts(s, who) # {} THEN MinOf(Stage2Starts(s, who))
               ELSE IF Stage3Starts(s) # {} THEN MinOf(Stage3Starts(s))
               ELSE 0
  IN IF first = 0 THEN None ELSE Some(Scale(FloatOf(NumberOf(s, first))))

C10_Fallback ==
  /\ result = FallbackResult(text, player)
  /\ result.isNone <=> Stage3Starts(Normalize(text)) = {}

\* the text contains "Player 1 ... win percentage: 73%"
ExampleAt(s, t, a) ==
  /\ t < a /\ a + 1 <= Len(s)
  /\ s[t] = Tag(1) /\ s[a] = Wpc /\ s[a + 1] = Num(73, -1, FALSE)

\* C10 (as stated): the first successful stage of the fallback decides, the
\* result is unknown exactly when the text has no win-percentage pattern,
\* and for any text containing "Player 1 ... win percentage: 73%" the
\* extraction for player 1 yields 0.73.
C10_FallbackAndExample ==
  pstate = "parsed" =>
     /\ C10_Fallback
     /\ (player = 1 /\ \E t, a \in 1..Len(text) : ExampleAt(text, t, a))
          => result = Some(730)

\* C10 (amended): the first successful stage of the fallback decides, the
\* result is unknown exactly when the text has no win-percentage pattern,
\* and for any text in which "Player 1 ... win percentage: 73%" stands on
\* one line and no win-percentage pattern starts before that one, the
\* extraction for player 1 yields 0.73.
C10_FallbackAndFirstExample ==
  pstate = "parsed" =>
     /\ C10_Fallback
     /\ (player = 1 /\ \E t, a \in 1..Len(text) :
            /\ ExampleAt(text, t, a)
            /\ OneLine(text, t, a + 1)
            /\ \A b \in 1..(a - 1) : b \notin Stage3Starts(Normalize(text)))
          => result = Some(730)

\* the second stage decides, in a text that also names the other player
C10_Witness ==
  /\ pstate = "parsed"
  /\ ~result.isNone
  /\ Stage1Starts(Normalize(text), player) = {}
  /\ Stage2Starts(Normalize(text), player) # {}
  /\ \E j \in 1..Len(text) : text[j].k = "tag" /\ text[j].i # player

=============================================================================
